---- MODULE Spec2Model ----
(***************************************************************************)
(* A model of text_file_processing.py: FolderProcessor (the driver, whose   *)
(* construction performs the run) and FileProcessor (the per-file unit),    *)
(* with the AppendAndRename subclass of module_check.py as one of the       *)
(* ProcessObject classes.                                                   *)
(*                                                                          *)
(* File names are sequences of character codes, so that list.sort() and     *)
(* str.split('.') are computed on the characters.  A directory is a record  *)
(* [exists, files] where files maps each entry name to its content, a       *)
(* sequence of lines.  process_data() is the extension point: what a unit   *)
(* does is a behaviour that is a function of its input file name, fixed the *)
(* first time the unit runs (behav), and generate_output_filename() is a    *)
(* pure function of the file name (default, AppendAndRename's, or an        *)
(* arbitrary override fixed the first time it is computed, nameMap).        *)
(* A file's content is the sequence of lines whose write() has returned; a  *)
(* folder either exists and can be listed and written, or does not exist.   *)
(***************************************************************************)
EXTENDS Integers, Sequences, FiniteSets, TLC

\* ------------------------------------------------------------------ bounds
\* Most entries a directory holds in the initial state.
MaxFiles == 2
\* Lines of the dataset a writing unit passes to write_data_to_file.
DatasetLen == 2
\* Driver constructions in a row (the script run again on the same folders).
MaxRuns == 2
\* Most lines of the dataset passed to grep_string, and most characters of a
\* line before its newline.
MaxLines == 2
MaxLineLen == 2

\* --------------------------------------------------------------- characters
\* '.', the separator of AppendAndRename.generate_output_filename.
Dot == 46
\* "-updated." inserted between the two parts of the file name.
UpdatedDot == <<45, 117, 112, 100, 97, 116, 101, 100, 46>>

\* "a.t", "b.t", "R" (no extension) and "a-updated.t"
NameA == <<97, 46, 116>>
NameB == <<98, 46, 116>>
NameR == <<82>>
NameAU == <<97>> \o UpdatedDot \o <<116>>
\* The entries the input folder may hold at first, and those of the output folder.
InPool == {NameA, NameB, NameR}
OutPool == {NameA, NameB, NameAU}
\* The names an overriding generate_output_filename returns.
OverrideRange == {NameA, NameAU}

\* ------------------------------------------------------------ pure helpers
RECURSIVE LexLess(_, _)
\* Python's str ordering: by code point, a proper prefix first.
LexLess(a, b) ==
    IF a = <<>> THEN b # <<>>
    ELSE IF b = <<>> THEN FALSE
    ELSE IF Head(a) < Head(b) THEN TRUE
    ELSE IF Head(a) > Head(b) THEN FALSE
    ELSE LexLess(Tail(a), Tail(b))

RECURSIVE Insert(_, _)
Insert(x, s) ==
    IF s = <<>> THEN <<x>>
    ELSE IF LexLess(Head(s), x) THEN <<Head(s)>> \o Insert(x, Tail(s))
    ELSE <<x>> \o s

RECURSIVE SortNames(_)
SortNames(s) == IF s = <<>> THEN <<>> ELSE Insert(Head(s), SortNames(Tail(s)))

\* What list.sort() leaves when it is forgotten: the OS order.
SortForgotten(s) == s

\* self.fileslist.sort()
Sort(s) == SortNames(s)

RECURSIVE Listings(_)
\* os.listdir returns the entries in an arbitrary order: any arrangement of them.
Listings(S) ==
    IF S = {} THEN {<<>>}
    ELSE UNION {{<<x>> \o p : p \in Listings(S \ {x})} : x \in S}

Range(s) == {s[i] : i \in DOMAIN s}

RECURSIVE Split(_, _)
\* str.split(sep) for a one-character separator.
Split(s, sep) ==
    IF \A i \in DOMAIN s : s[i] # sep THEN <<s>>
    ELSE LET k == CHOOSE i \in DOMAIN s : s[i] = sep /\ \A j \in 1..(i - 1) : s[j] # sep
         IN  <<SubSeq(s, 1, k - 1)>> \o Split(SubSeq(s, k + 1, Len(s)), sep)

\* ----------------------------------------------------------------- errors
ValueErrorUnpack == [msg |-> "not enough or too many values to unpack", kind |-> "ValueError"]
ReadError == [msg |-> "cannot open input file", kind |-> "IOError"]
OpenError == [msg |-> "No such file or directory", kind |-> "IOError"]
WriteError == [msg |-> "write() argument must be str", kind |-> "TypeError"]
NoError == [msg |-> "", kind |-> ""]

\* ------------------------------------------------------------------ lines
HeaderLines == <<[tag |-> "Summary of results:", src |-> <<>>, n |-> 0],
                 [tag |-> "blank", src |-> <<>>, n |-> 0]>>
OldContent(f) == <<[tag |-> "old", src |-> f, n |-> 0]>>
\* The dataset the unit of input file f passes to write_data_to_file.
Dataset(f) == [i \in 1..DatasetLen |-> [tag |-> "data", src |-> f, n |-> i]]

\* ------------------------------------------------------------------ state
VARIABLES
    fs,            \* the two directories: name -> [exists, files]
    summary,       \* the summary file: [dir (its folder exists), exists, content]
    infolder, outfolder, outfile, overwrite, verbose, ProcessObject,
    nameMap,       \* the override of generate_output_filename, where computed
    behav,         \* what process_data does for each input file, where run
    phase,         \* Initialized, Listing, Filtering, Executing, Done, Aborted
    abortErr,      \* the error that ended construction, in phase Aborted
    fileslist, preservelist, objectlist,
    genIdx,        \* generate_objects: 0 before the loop, then the loop index
    constructed,   \* the ProcessObject instances built in this run
    idx,           \* process_folder: the loop index into objectlist
    upc,           \* the current unit: idle, writing, returned, raised
    wstate,        \* write_data_to_file of the current unit: none, open, returned, raised
    written,       \* lines of the dataset written so far
    handles,       \* file handles opened by write_data_to_file and not closed
    statusverbose, \* the current unit's statusverbose ("" when None)
    err,           \* the error process_data raised
    invoked,       \* files whose process_data was called in this run, in order
    raisedLog,     \* [pos, file, err] for each process_data that raised in this run
    comments,      \* [file, comment] for each unit process_folder finished
    console,       \* what the driver printed in this run
    wrote,         \* the lines units wrote through write_data_to_file in this run
    run,           \* number of the current driver construction
    outAtStart,    \* the output directory when this run started
    summaryAtStart,\* the summary file when this run started
    prevOut,       \* the output directory when the previous run ended
    grepcall       \* a call of grep_string: its arguments, locals and result

cfgvars == <<infolder, outfolder, outfile, overwrite, verbose, ProcessObject>>
unitvars == <<upc, wstate, written, statusverbose, err>>
logvars == <<invoked, raisedLog, comments, console, wrote>>
histvars == <<run, outAtStart, summaryAtStart, prevOut>>
vars == <<fs, summary, cfgvars, nameMap, behav, phase, abortErr, fileslist,
          preservelist, objectlist, genIdx, constructed, idx, unitvars, handles,
          logvars, histvars, grepcall>>
\* The state of the driver and of its units.
drivervars == <<fs, summary, cfgvars, nameMap, behav, phase, abortErr, fileslist,
                preservelist, objectlist, genIdx, constructed, idx, unitvars, handles,
                logvars, histvars>>

Missing == [exists |-> FALSE, files |-> <<>>]
DirOf(S) == [exists |-> TRUE, files |-> [f \in S |-> OldContent(f)]]
DirStates(pool) ==
    {Missing} \cup {DirOf(S) : S \in {T \in SUBSET pool : Cardinality(T) <= MaxFiles}}

NoSummary == [dir |-> TRUE, exists |-> FALSE, content |-> <<>>]
SummaryStates ==
    {NoSummary,
     [dir |-> FALSE, exists |-> FALSE, content |-> <<>>],
     [dir |-> TRUE, exists |-> TRUE, content |-> OldContent(<<>>)]}

\* The classes of units, by what they do to the file name.
Classes == {"FileProcessor", "AppendAndRename", "Override"}

\* if self.outfile:
SummaryMode == outfile # ""

\* No call of grep_string is under way.
NoGrepCall ==
    [pc |-> "none", string |-> <<>>, dataset |-> <<>>, printdata |-> TRUE,
     filename |-> <<>>, i |-> 0, matches |-> <<>>,
     result |-> [none |-> TRUE, list |-> <<>>], printed |-> <<>>]

\* The state when FolderProcessor.__init__ is entered.
InitDriver ==
    /\ infolder = "data"
    /\ outfolder \in {"data", "output"}
    /\ \E din \in DirStates(InPool), dout \in DirStates(OutPool) :
          /\ outfolder = "data" => dout = Missing
          /\ fs = [d \in {"data", "output"} |-> IF d = "data" THEN din ELSE dout]
    /\ outfile \in {"", "averages.csv"}
    /\ summary \in (IF outfile = "" THEN {NoSummary} ELSE SummaryStates)
    /\ overwrite \in BOOLEAN
    /\ verbose \in BOOLEAN
    /\ ProcessObject \in Classes
    /\ nameMap = <<>>
    /\ behav = <<>>
    /\ phase = "Initialized"
    /\ abortErr = NoError
    /\ fileslist = <<>>
    /\ preservelist = {}
    /\ objectlist = <<>>
    /\ genIdx = 0
    /\ constructed = <<>>
    /\ idx = 0
    /\ upc = "idle"
    /\ wstate = "none"
    /\ written = 0
    /\ handles = 0
    /\ statusverbose = ""
    /\ err = NoError
    /\ invoked = <<>>
    /\ raisedLog = <<>>
    /\ comments = <<>>
    /\ console = <<>>
    /\ wrote = <<>>
    /\ run = 1
    /\ outAtStart = fs[outfolder]
    /\ summaryAtStart = summary
    /\ prevOut = Missing

Init == InitDriver /\ grepcall = NoGrepCall

\* --------------------------------------------------- FileProcessor helpers
NameOK(n) == [ok |-> TRUE, name |-> n]
NameRaises == [ok |-> FALSE, name |-> <<>>]

\* FileProcessor.generate_output_filename: does not change the file name.
DefaultOutputFilename(f) == NameOK(f)

\* AppendAndRename.generate_output_filename: filename, extension =
\* self.filename.split('.') raises ValueError unless there are exactly two parts.
AppendAndRenameOutputFilename(f) ==
    LET parts == Split(f, Dot)
    IN  IF Len(parts) # 2 THEN NameRaises
        ELSE NameOK(parts[1] \o UpdatedDot \o parts[2])

\* The results generate_output_filename() can give for input file f: one, but
\* for an override that has not been computed for f yet, which may be any
\* function of the file name.
generate_output_filename(f) ==
    CASE ProcessObject = "FileProcessor" -> {DefaultOutputFilename(f)}
      [] ProcessObject = "AppendAndRename" -> {AppendAndRenameOutputFilename(f)}
      [] ProcessObject = "Override" ->
            IF f \in DOMAIN nameMap THEN {NameOK(nameMap[f])}
            ELSE {NameOK(n) : n \in OverrideRange}

Memo(map, f, v) == IF f \in DOMAIN map THEN map ELSE (f :> v) @@ map

\* What process_data() of a unit does: set statusverbose and have
\* get_input_data raise, set statusverbose and return without writing (output
\* to the terminal), or call write_data_to_file(Dataset) without setting
\* statusverbose, where failAt = k > 0 makes outtarget.write raise on the k-th
\* line; status is what it sets statusverbose to.
Behaviours ==
    {[kind |-> "raise", status |-> "custom status", failAt |-> 0],
     [kind |-> "nowrite", status |-> "custom status", failAt |-> 0]}
    \cup {[kind |-> "write", status |-> "", failAt |-> k] : k \in 0..DatasetLen}

BehaviourChoices(f) == IF f \in DOMAIN behav THEN {behav[f]} ELSE Behaviours

\* ---------------------------------------------------------------- comments
OKComment == [tag |-> "OK", msg |-> "", kind |-> ""]
StatusComment(s) == [tag |-> "STATUS", msg |-> s, kind |-> ""]
NoComment == [tag |-> "", msg |-> "", kind |-> ""]

\* '\t... FAILED: {0} [{1}]'.format(e, e.__class__)
FailedComment(e) == [tag |-> "FAILED", msg |-> e.msg, kind |-> e.kind]

SkipNotice(f) == [kind |-> "skip", file |-> f, comment |-> NoComment]
ProcessingLine(f, c) == [kind |-> "processing", file |-> f, comment |-> c]
TrailingLine == [kind |-> "trailing", file |-> <<>>, comment |-> NoComment]

\* ------------------------------------------------ FolderProcessor.__init__
Abort(e) ==
    /\ phase' = "Aborted"
    /\ abortErr' = e

\* The header added in append mode: what the file held stays.
HeaderAppended(s) == [s EXCEPT !.exists = TRUE, !.content = @ \o HeaderLines]

\* Lines 87-90: open(outfile, 'w'), write the header, close.
HeaderWritten(s) == [s EXCEPT !.exists = TRUE, !.content = HeaderLines]

\* An __init__ that has not touched the outfile when it lists the input folder.
WriteHeaderDeferred ==
    /\ phase = "Initialized"
    /\ IF SummaryMode /\ ~summary.dir
          THEN Abort(OpenError)
          ELSE phase' = "Listing" /\ UNCHANGED abortErr
    /\ UNCHANGED <<fs, summary, cfgvars, nameMap, behav, fileslist, preservelist, objectlist,
                   genIdx, constructed, idx, unitvars, handles, logvars, histvars, grepcall>>

\* Lines 76-93: store the arguments; with an outfile, open it in write mode,
\* write the header and close it.
WriteHeader ==
    /\ phase = "Initialized"
    /\ IF SummaryMode /\ ~summary.dir
          THEN Abort(OpenError) /\ UNCHANGED summary
          ELSE /\ summary' = IF SummaryMode THEN HeaderWritten(summary) ELSE summary
               /\ phase' = "Listing"
               /\ UNCHANGED abortErr
    /\ UNCHANGED <<fs, cfgvars, nameMap, behav, fileslist, preservelist, objectlist,
                   genIdx, constructed, idx, unitvars, handles, logvars, histvars, grepcall>>

\* A listing whose error is swallowed: the run goes on with no entries.
ListInputSwallows ==
    /\ phase = "Listing"
    /\ IF ~fs[infolder].exists
          THEN fileslist' = <<>>
          ELSE \E p \in Listings(DOMAIN fs[infolder].files) : fileslist' = Sort(p)
    /\ phase' = "Filtering"
    /\ UNCHANGED abortErr
    /\ UNCHANGED <<fs, summary, cfgvars, nameMap, behav, preservelist, objectlist,
                   genIdx, constructed, idx, unitvars, handles, logvars, histvars, grepcall>>

\* Lines 95-97: self.fileslist = os.listdir(infolder); self.fileslist.sort()
ListInput ==
    /\ phase = "Listing"
    /\ IF ~fs[infolder].exists
          THEN Abort(OpenError) /\ UNCHANGED fileslist
          ELSE /\ \E p \in Listings(DOMAIN fs[infolder].files) : fileslist' = Sort(p)
               /\ phase' = "Filtering"
               /\ UNCHANGED abortErr
    /\ UNCHANGED <<fs, summary, cfgvars, nameMap, behav, preservelist, objectlist,
                   genIdx, constructed, idx, unitvars, handles, logvars, histvars, grepcall>>

\* ----------------------------------------- FolderProcessor.generate_objects
\* A preserve list that forgets the overwrite flag.
PreserveListIgnoringOverwrite(ow, sm, dir) ==
    IF (~sm) /\ dir.exists THEN DOMAIN dir.files ELSE {}

\* A preserve list with the test of the overwrite flag inverted.
PreserveListInvertedOverwrite(ow, sm, dir) ==
    IF ow /\ (~sm) /\ dir.exists THEN DOMAIN dir.files ELSE {}

\* A preserve list that is built in summary mode too.
PreserveListInSummaryMode(ow, sm, dir) ==
    IF (~ow) /\ dir.exists THEN DOMAIN dir.files ELSE {}

\* Lines 106-116: the files not to overwrite.
PreserveList(ow, sm, dir) ==
    IF (~ow) /\ (~sm) /\ dir.exists THEN DOMAIN dir.files ELSE {}

\* The test on the input file name instead of the output file name.
SkipTestOnInputName(eachfile, outputfile, plist) == eachfile \in plist

\* Line 121: if outputfile in preservelist
SkipTest(eachfile, outputfile, plist) == outputfile \in plist

\* The notice printed only in verbose mode.
SkipPrintedIfVerbose(con, eachfile) ==
    IF verbose THEN Append(con, SkipNotice(eachfile)) ELSE con

\* Line 122: print('Output already exists for {0} ... ignoring this file')
SkipPrinted(con, eachfile) == Append(con, SkipNotice(eachfile))

GenerateObjectsEnter ==
    /\ phase = "Filtering"
    /\ genIdx = 0
    /\ preservelist' = PreserveList(overwrite, SummaryMode, fs[outfolder])
    /\ genIdx' = 1
    /\ UNCHANGED <<fs, summary, cfgvars, nameMap, behav, phase, abortErr, fileslist,
                   objectlist, constructed, idx, unitvars, handles, logvars, histvars, grepcall>>

\* Lines 117-124, one iteration: build the unit, compute its output file name
\* (an error it raises leaves generate_objects and __init__), skip or keep it.
GenerateObjectsLoop ==
    /\ phase = "Filtering"
    /\ genIdx \in 1..Len(fileslist)
    /\ LET eachfile == fileslist[genIdx]
       IN  /\ constructed' = Append(constructed, eachfile)
           /\ \E r \in generate_output_filename(eachfile) :
                 IF ~r.ok
                    THEN /\ Abort(ValueErrorUnpack)
                         /\ UNCHANGED <<nameMap, objectlist, console, genIdx>>
                    ELSE /\ nameMap' = IF ProcessObject = "Override"
                                          THEN Memo(nameMap, eachfile, r.name)
                                          ELSE nameMap
                         /\ IF SkipTest(eachfile, r.name, preservelist)
                               THEN /\ console' = SkipPrinted(console, eachfile)
                                    /\ UNCHANGED objectlist
                               ELSE /\ objectlist' = Append(objectlist, eachfile)
                                    /\ UNCHANGED console
                         /\ genIdx' = genIdx + 1
                         /\ UNCHANGED <<phase, abortErr>>
    /\ UNCHANGED <<fs, summary, cfgvars, behav, fileslist, preservelist, idx, unitvars,
                   handles, invoked, raisedLog, comments, wrote, histvars, grepcall>>

\* Line 125 and lines 98-99: return result; self.process_folder()
GenerateObjectsReturn ==
    /\ phase = "Filtering"
    /\ genIdx = Len(fileslist) + 1
    /\ phase' = "Executing"
    /\ idx' = 1
    /\ UNCHANGED <<fs, summary, cfgvars, nameMap, behav, abortErr, fileslist, preservelist,
                   objectlist, genIdx, constructed, unitvars, handles, logvars, histvars, grepcall>>

\* ------------------------------------------- FolderProcessor.process_folder
CurrentFile == objectlist[idx]

Raise(e) ==
    /\ upc' = "raised"
    /\ err' = e
    /\ raisedLog' = Append(raisedLog, [pos |-> idx, file |-> CurrentFile, err |-> e])

\* Lines 129-132: eachobject.process_data() is called inside the try block.
\* The unit may set statusverbose; it raises, returns, or goes on to
\* write_data_to_file.
ProcessDataCall ==
    /\ phase = "Executing"
    /\ idx \in 1..Len(objectlist)
    /\ upc = "idle"
    /\ invoked' = Append(invoked, CurrentFile)
    /\ \E b \in BehaviourChoices(CurrentFile) :
          /\ behav' = Memo(behav, CurrentFile, b)
          /\ statusverbose' = b.status
          /\ CASE b.kind = "raise" -> Raise(ReadError)
               [] b.kind = "nowrite" -> upc' = "returned" /\ UNCHANGED <<err, raisedLog>>
               [] b.kind = "write" -> upc' = "calling_write" /\ UNCHANGED <<err, raisedLog>>
    /\ UNCHANGED <<fs, summary, cfgvars, nameMap, phase, abortErr, fileslist, preservelist,
                   objectlist, genIdx, constructed, idx, wstate, written, handles,
                   comments, console, wrote, histvars, grepcall>>

\* ------------------------------------------ FileProcessor.write_data_to_file
\* open(path, 'a') of a file of a directory: what the file held stays.
OpenedForAppend(dir, name) ==
    [dir EXCEPT !.files = [n \in (DOMAIN dir.files) \cup {name} |->
                              IF n \in DOMAIN dir.files THEN dir.files[n] ELSE <<>>]]

\* open(path, 'w') of a file of a directory: the file exists and is empty.
Truncated(dir, name) ==
    [dir EXCEPT !.files = [n \in (DOMAIN dir.files) \cup {name} |->
                              IF n = name THEN <<>> ELSE dir.files[n]]]

AppendLine(dir, name, line) ==
    [dir EXCEPT !.files = [n \in DOMAIN dir.files |->
                              IF n = name THEN Append(dir.files[n], line) ELSE dir.files[n]]]

\* The name write_data_to_file computes again on line 41.
OutputNameOf(f) == CHOOSE r \in generate_output_filename(f) : TRUE

\* Lines 36-42: open the summary file in append mode, or the unit's output
\* file in write mode; open raises when the folder does not exist.
WriteOpen ==
    /\ phase = "Executing"
    /\ upc = "calling_write"
    /\ IF SummaryMode
          THEN /\ summary' = [summary EXCEPT !.exists = TRUE]
               /\ handles' = handles + 1
               /\ wstate' = "open"
               /\ upc' = "writing"
               /\ UNCHANGED <<fs, err, raisedLog>>
          ELSE IF ~OutputNameOf(CurrentFile).ok
                  THEN /\ Raise(ValueErrorUnpack)
                       /\ wstate' = "raised"
                       /\ UNCHANGED <<fs, summary, handles>>
          ELSE IF ~fs[outfolder].exists
                  THEN /\ Raise(OpenError)
                       /\ wstate' = "raised"
                       /\ UNCHANGED <<fs, summary, handles>>
                  ELSE /\ fs' = [fs EXCEPT ![outfolder] =
                                    Truncated(@, OutputNameOf(CurrentFile).name)]
                       /\ handles' = handles + 1
                       /\ wstate' = "open"
                       /\ upc' = "writing"
                       /\ UNCHANGED <<summary, err, raisedLog>>
    /\ written' = 0
    /\ UNCHANGED <<cfgvars, nameMap, behav, phase, abortErr, fileslist, preservelist,
                   objectlist, genIdx, constructed, idx, statusverbose, invoked,
                   comments, console, wrote, histvars, grepcall>>

\* Lines 43-44, one iteration: outtarget.write(line).  When it raises the
\* function is left at once: line 46 is not reached.
WriteLine ==
    /\ phase = "Executing"
    /\ upc = "writing"
    /\ written < DatasetLen
    /\ IF behav[CurrentFile].failAt = written + 1
          THEN /\ Raise(WriteError)
               /\ wstate' = "raised"
               /\ UNCHANGED <<fs, summary, written, wrote>>
          ELSE LET line == Dataset(CurrentFile)[written + 1]
               IN  /\ IF SummaryMode
                         THEN /\ summary' = [summary EXCEPT !.content = Append(@, line)]
                              /\ UNCHANGED fs
                         ELSE /\ fs' = [fs EXCEPT ![outfolder] =
                                           AppendLine(@, OutputNameOf(CurrentFile).name, line)]
                              /\ UNCHANGED summary
                   /\ written' = written + 1
                   /\ wrote' = Append(wrote, line)
                   /\ UNCHANGED <<upc, wstate, err, raisedLog>>
    /\ UNCHANGED <<cfgvars, nameMap, behav, phase, abortErr, fileslist, preservelist,
                   objectlist, genIdx, constructed, idx, handles, statusverbose, invoked,
                   comments, console, histvars, grepcall>>

\* Line 46: outtarget.close(); write_data_to_file and process_data return.
WriteClose ==
    /\ phase = "Executing"
    /\ upc = "writing"
    /\ written = DatasetLen
    /\ handles' = handles - 1
    /\ wstate' = "returned"
    /\ upc' = "returned"
    /\ UNCHANGED <<fs, summary, cfgvars, nameMap, behav, phase, abortErr, fileslist,
                   preservelist, objectlist, genIdx, constructed, idx, written,
                   statusverbose, err, logvars, histvars, grepcall>>

\* ------------------------------------ process_folder, after process_data
UnitReset ==
    /\ upc' = "idle"
    /\ wstate' = "none"
    /\ written' = 0
    /\ statusverbose' = ""
    /\ err' = NoError

\* process_folder without the try/except: the error leaves the constructor.
ProcessFolderNoExcept ==
    /\ phase = "Executing"
    /\ upc \in {"returned", "raised"}
    /\ IF upc = "raised"
          THEN /\ Abort(err)
               /\ UNCHANGED <<comments, console, idx>>
          ELSE LET comment == IF statusverbose # "" THEN StatusComment(statusverbose)
                              ELSE OKComment
               IN  /\ comments' = Append(comments, [file |-> CurrentFile, comment |-> comment])
                   /\ console' = IF verbose
                                    THEN Append(console, ProcessingLine(CurrentFile, comment))
                                    ELSE console
                   /\ idx' = idx + 1
                   /\ UNCHANGED <<phase, abortErr>>
    /\ UnitReset
    /\ UNCHANGED <<fs, summary, cfgvars, nameMap, behav, fileslist, preservelist,
                   objectlist, genIdx, constructed, handles, invoked, raisedLog, wrote,
                   histvars, grepcall>>

\* process_folder that calls process_data of a unit again after it raised.
ProcessFolderRetry ==
    /\ phase = "Executing"
    /\ upc \in {"returned", "raised"}
    /\ IF upc = "raised"
          THEN UNCHANGED <<comments, console, idx>>
          ELSE LET comment == IF statusverbose # "" THEN StatusComment(statusverbose)
                              ELSE OKComment
               IN  /\ comments' = Append(comments, [file |-> CurrentFile, comment |-> comment])
                   /\ console' = IF verbose
                                    THEN Append(console, ProcessingLine(CurrentFile, comment))
                                    ELSE console
                   /\ idx' = idx + 1
    /\ UnitReset
    /\ UNCHANGED <<fs, summary, cfgvars, nameMap, behav, phase, abortErr, fileslist,
                   preservelist, objectlist, genIdx, constructed, handles, invoked,
                   raisedLog, wrote, histvars, grepcall>>

\* process_folder that lets the unit's status stand when process_data raised.
ProcessFolderStatusFirst ==
    /\ phase = "Executing"
    /\ upc \in {"returned", "raised"}
    /\ LET comment == IF statusverbose # "" THEN StatusComment(statusverbose)
                      ELSE IF upc = "raised" THEN FailedComment(err)
                      ELSE OKComment
       IN  /\ comments' = Append(comments, [file |-> CurrentFile, comment |-> comment])
           /\ console' = IF verbose
                            THEN Append(console, ProcessingLine(CurrentFile, comment))
                            ELSE console
    /\ idx' = idx + 1
    /\ UnitReset
    /\ UNCHANGED <<fs, summary, cfgvars, nameMap, behav, phase, abortErr, fileslist,
                   preservelist, objectlist, genIdx, constructed, handles, invoked,
                   raisedLog, wrote, histvars, grepcall>>

\* Lines 133-142: the comment of the unit (its status, OK, or FAILED with the
\* error), the line printed when verbose, and on to the next unit.
ProcessFolderStep ==
    /\ phase = "Executing"
    /\ upc \in {"returned", "raised"}
    /\ LET comment == IF upc = "raised" THEN FailedComment(err)
                      ELSE IF statusverbose # "" THEN StatusComment(statusverbose)
                      ELSE OKComment
       IN  /\ comments' = Append(comments, [file |-> CurrentFile, comment |-> comment])
           /\ console' = IF verbose
                            THEN Append(console, ProcessingLine(CurrentFile, comment))
                            ELSE console
    /\ idx' = idx + 1
    /\ UnitReset
    /\ UNCHANGED <<fs, summary, cfgvars, nameMap, behav, phase, abortErr, fileslist,
                   preservelist, objectlist, genIdx, constructed, handles, invoked,
                   raisedLog, wrote, histvars, grepcall>>

\* The trailing line printed whatever verbose is.
ProcessFolderEndAlwaysPrints ==
    /\ phase = "Executing"
    /\ idx = Len(objectlist) + 1
    /\ upc = "idle"
    /\ console' = Append(console, TrailingLine)
    /\ phase' = "Done"
    /\ UNCHANGED <<fs, summary, cfgvars, nameMap, behav, abortErr, fileslist, preservelist,
                   objectlist, genIdx, constructed, idx, unitvars, handles, invoked,
                   raisedLog, comments, wrote, histvars, grepcall>>

\* Lines 143-144: the trailing line; process_folder and __init__ return.
ProcessFolderEnd ==
    /\ phase = "Executing"
    /\ idx = Len(objectlist) + 1
    /\ upc = "idle"
    /\ console' = IF verbose THEN Append(console, TrailingLine) ELSE console
    /\ phase' = "Done"
    /\ UNCHANGED <<fs, summary, cfgvars, nameMap, behav, abortErr, fileslist, preservelist,
                   objectlist, genIdx, constructed, idx, unitvars, handles, invoked,
                   raisedLog, comments, wrote, histvars, grepcall>>

\* The script is run again: a new FolderProcessor with the same arguments.
Rerun ==
    /\ phase \in {"Done", "Aborted"}
    /\ run < MaxRuns
    /\ run' = run + 1
    /\ prevOut' = fs[outfolder]
    /\ outAtStart' = fs[outfolder]
    /\ summaryAtStart' = summary
    /\ phase' = "Initialized"
    /\ abortErr' = NoError
    /\ fileslist' = <<>>
    /\ preservelist' = {}
    /\ objectlist' = <<>>
    /\ genIdx' = 0
    /\ constructed' = <<>>
    /\ idx' = 0
    /\ UnitReset
    /\ handles' = 0
    /\ invoked' = <<>>
    /\ raisedLog' = <<>>
    /\ comments' = <<>>
    /\ console' = <<>>
    /\ wrote' = <<>>
    /\ UNCHANGED <<fs, summary, cfgvars, nameMap, behav, grepcall>>

Next ==
    \/ WriteHeader
    \/ ListInput
    \/ GenerateObjectsEnter
    \/ GenerateObjectsLoop
    \/ GenerateObjectsReturn
    \/ ProcessDataCall
    \/ WriteOpen
    \/ WriteLine
    \/ WriteClose
    \/ ProcessFolderStep
    \/ ProcessFolderEnd

\* One construction of FolderProcessor.
Spec == Init /\ [][Next]_vars

\* The script run again and again without overwrite and without a summary file.
InitRerun == Init /\ ~overwrite /\ outfile = ""

NextRerun == Next \/ Rerun

SpecRerun == InitRerun /\ [][NextRerun]_vars

\* ------------------------------------------------ FileProcessor.grep_string
\* '\n', the character strip removes from the line printed.
Newline == 10
\* '#' and '2', the characters of the string GrepData searches for.
GrepAlphabet == {35, 50}
Strings(n) == UNION {[1..k -> GrepAlphabet] : k \in 0..n}
\* The lines get_input_data returns end with a newline.
GrepLines == {b \o <<Newline>> : b \in Strings(MaxLineLen)}
GrepDatasets == UNION {[1..k -> GrepLines] : k \in 0..MaxLines}
\* The strings searched for: '', '#', '2', '#2' and '2' followed by a newline.
GrepStrings == {<<>>, <<35>>, <<50>>, <<35, 50>>, <<50, Newline>>}

StartsWith(line, string) ==
    Len(string) <= Len(line) /\ SubSeq(line, 1, Len(string)) = string

RECURSIVE StringIn(_, _)
\* string in line, for two str values: string occurs at some position of line.
StringIn(string, line) ==
    IF StartsWith(line, string) THEN TRUE
    ELSE IF line = <<>> THEN FALSE
    ELSE StringIn(string, Tail(line))

RECURSIVE LStrip(_, _)
LStrip(s, c) == IF s # <<>> /\ Head(s) = c THEN LStrip(Tail(s), c) ELSE s

RECURSIVE RStrip(_, _)
RStrip(s, c) ==
    IF s # <<>> /\ s[Len(s)] = c THEN RStrip(SubSeq(s, 1, Len(s) - 1), c) ELSE s

\* str.strip(c) for a one-character c.
Strip(s, c) == RStrip(LStrip(s, c), c)

\* The value a function returns: None, or a list.
ReturnsNone == [none |-> TRUE, list |-> <<>>]
ReturnsList(l) == [none |-> FALSE, list |-> l]

\* Line 62: grep_string(string, dataset, printdata) is entered on the unit of
\* input file filename; matches = [].
GrepCalled(filename, string, dataset, printdata) ==
    [pc |-> "loop", string |-> string, dataset |-> dataset, printdata |-> printdata,
     filename |-> filename, i |-> 0, matches |-> <<>>,
     result |-> ReturnsNone, printed |-> <<>>]

\* A FileProcessor on which grep_string is called, outside any run of a driver.
InitGrep ==
    /\ outfolder = "output"
    /\ fs = [d \in {"data", "output"} |-> Missing]
    /\ outfile = ""
    /\ overwrite = FALSE
    /\ verbose = TRUE
    /\ ProcessObject = "FileProcessor"
    /\ InitDriver
    /\ \E f \in InPool, st \in GrepStrings, d \in GrepDatasets, pd \in BOOLEAN :
          grepcall = GrepCalled(f, st, d, pd)

\* The loop that appends the index counted from 1.
GrepLoopOneBased ==
    /\ grepcall.pc = "loop"
    /\ grepcall.i < Len(grepcall.dataset)
    /\ grepcall' = [grepcall EXCEPT
                       !.i = @ + 1,
                       !.matches = IF StringIn(grepcall.string, grepcall.dataset[grepcall.i + 1])
                                      THEN Append(@, grepcall.i + 1) ELSE @]
    /\ UNCHANGED drivervars

\* Lines 63-65, one iteration for i in range(len(dataset)): dataset[i] is the
\* (i + 1)-th line; matches.append(i) if string in dataset[i].
GrepLoop ==
    /\ grepcall.pc = "loop"
    /\ grepcall.i < Len(grepcall.dataset)
    /\ grepcall' = [grepcall EXCEPT
                       !.i = @ + 1,
                       !.matches = IF StringIn(grepcall.string, grepcall.dataset[grepcall.i + 1])
                                      THEN Append(@, grepcall.i) ELSE @]
    /\ UNCHANGED drivervars

\* Lines 66-68: with printdata one line is printed for each match, with the
\* line number match + 1; the function ends without a return statement.
GrepPrint ==
    /\ grepcall.pc = "loop"
    /\ grepcall.i = Len(grepcall.dataset)
    /\ grepcall.printdata
    /\ grepcall' = [grepcall EXCEPT
                       !.pc = "returned",
                       !.result = ReturnsNone,
                       !.printed = [k \in 1..Len(grepcall.matches) |->
                                      [string |-> grepcall.string,
                                       line |-> grepcall.matches[k] + 1,
                                       file |-> grepcall.filename,
                                       text |-> Strip(grepcall.dataset[grepcall.matches[k] + 1],
                                                      Newline)]]]
    /\ UNCHANGED drivervars

\* Lines 69-72: result = [self.filename] + matches; return result
GrepReturn ==
    /\ grepcall.pc = "loop"
    /\ grepcall.i = Len(grepcall.dataset)
    /\ ~grepcall.printdata
    /\ grepcall' = [grepcall EXCEPT
                       !.pc = "returned",
                       !.result = ReturnsList(<<grepcall.filename>> \o grepcall.matches)]
    /\ UNCHANGED drivervars

NextGrep ==
    \/ GrepLoop
    \/ GrepPrint
    \/ GrepReturn

\* One call of grep_string.
SpecGrep == InitGrep /\ [][NextGrep]_vars

\* ================================================================== claims
SkipCount(f) == Cardinality({i \in DOMAIN console : console[i] = SkipNotice(f)})
NoSkipPrinted == \A i \in DOMAIN console : console[i].kind # "skip"
FilteringOver == phase \in {"Executing", "Done"}
Sorted(s) == \A i, j \in DOMAIN s : i < j => LexLess(s[i], s[j])

\* C1: a unit whose process_data raises does not end the run: every unit of
\* objectlist after it still has process_data called (at Done the calls are
\* exactly objectlist, in order), and the comment recorded for the failed unit
\* is the FAILED comment with the raised error's message and kind, whichever
\* error it is (get_input_data's, open's or write's).
C1_FailureIsolated ==
    /\ raisedLog # <<>> => phase \in {"Executing", "Done"}
    /\ upc = "raised" => ENABLED ProcessFolderStep
    /\ (raisedLog # <<>> /\ upc = "idle" /\ idx \in 1..Len(objectlist))
          => ENABLED ProcessDataCall
    /\ phase = "Done" => invoked = objectlist
    /\ \A i \in DOMAIN raisedLog :
          LET r == raisedLog[i]
          IN  r.pos <= Len(comments) =>
                 /\ comments[r.pos].file = r.file
                 /\ comments[r.pos].comment.tag = "FAILED"
                 /\ comments[r.pos].comment.msg = r.err.msg
                 /\ comments[r.pos].comment.kind = r.err.kind

\* C1 witness: the run is done, the first unit's process_data raised the I/O
\* error of open in write_data_to_file, its comment is the FAILED one with
\* that error, and the second unit was processed after it.
C1_Witness ==
    /\ phase = "Done"
    /\ Len(invoked) = 2
    /\ raisedLog # <<>>
    /\ raisedLog[1].pos = 1
    /\ raisedLog[1].err = OpenError
    /\ comments[1].comment = FailedComment(OpenError)
    /\ Len(comments) = 2

\* C3: with overwrite = True nothing is skipped, whatever the output folder
\* holds: no skip notice is printed, generate_objects keeps a unit for every
\* entry of the input folder, and process_data is called for each of them.
C3_OverwriteProcessesAll ==
    overwrite =>
       /\ NoSkipPrinted
       /\ preservelist = {}
       /\ phase = "Filtering" =>
             /\ Range(fileslist) = DOMAIN fs[infolder].files
             /\ Len(fileslist) = Cardinality(DOMAIN fs[infolder].files)
       /\ FilteringOver => objectlist = fileslist
       /\ phase = "Done" => invoked = fileslist

\* C3 witness: overwrite is set, the output folder already held the output
\* files of both input files, and both were processed.
C3_Witness ==
    /\ overwrite
    /\ ~SummaryMode
    /\ phase = "Done"
    /\ Len(invoked) = 2
    /\ outAtStart.exists
    /\ \A i \in DOMAIN invoked : OutputNameOf(invoked[i]).name \in DOMAIN outAtStart.files

\* The files generate_objects left out of this run.
Skipped == {fileslist[i] : i \in DOMAIN fileslist} \ {objectlist[i] : i \in DOMAIN objectlist}
RunOver == phase \in {"Done", "Aborted"}
OneNoticePerSkip ==
    FilteringOver => \A i \in DOMAIN fileslist :
        SkipCount(fileslist[i]) = (IF fileslist[i] \in Skipped THEN 1 ELSE 0)

\* C2 as stated: for every input and output folder, the input folder itself
\* included, the output folder holds after a run that follows another what it
\* held after that one, and each file skipped has exactly one skip notice.
C2_Original ==
    /\ (run >= 2 /\ RunOver) => fs[outfolder] = prevOut
    /\ run >= 2 => OneNoticePerSkip

\* C2 amended: when the output folder is not the input folder, the output
\* folder holds after a run that follows another (without overwrite, without
\* summary file, each unit doing the same on every run) exactly what it held
\* after that one; and, whatever the folders, each file skipped has exactly
\* one skip notice.
C2_RerunIdempotent ==
    /\ (outfolder # infolder /\ run >= 2 /\ RunOver) => fs[outfolder] = prevOut
    /\ run >= 2 => OneNoticePerSkip

\* C2 witness: a second run is done on an output folder that is not the input
\* folder; the first run wrote a file under an overridden name, and the second
\* run skipped that input file with a notice and left the folder as it was.
C2_Witness ==
    /\ run = 2
    /\ phase = "Done"
    /\ outfolder # infolder
    /\ ProcessObject = "AppendAndRename"
    /\ NameA \in Skipped
    /\ SkipCount(NameA) = 1
    /\ fs[outfolder].files[NameAU] = Dataset(NameA)
    /\ fs[outfolder] = prevOut

WrittenPart(f) ==
    IF f \notin DOMAIN behav \/ behav[f].kind # "write" THEN <<>>
    ELSE IF behav[f].failAt = 0 THEN Dataset(f)
    ELSE SubSeq(Dataset(f), 1, behav[f].failAt - 1)

RECURSIVE WrittenBy(_)
\* What the units of the sequence of files s wrote, one after the other.
WrittenBy(s) == IF s = <<>> THEN <<>> ELSE WrittenPart(Head(s)) \o WrittenBy(Tail(s))

IsBlockOf(part, whole) ==
    \E k \in 0..(Len(whole) - Len(part)) : SubSeq(whole, k + 1, k + Len(part)) = part

\* C5: with a summary file no unit is skipped, whatever overwrite is and
\* whatever the output folder holds: the preserve list is empty, no notice is
\* printed, every entry gets a unit and its process_data is called, and the
\* dataset of every unit whose write_data_to_file returned is in the summary file.
C5_SummaryNeverSkips ==
    SummaryMode =>
       /\ preservelist = {}
       /\ NoSkipPrinted
       /\ FilteringOver => objectlist = fileslist
       /\ phase = "Done" =>
             /\ invoked = fileslist
             /\ \A i \in DOMAIN invoked :
                   (behav[invoked[i]].kind = "write" /\ behav[invoked[i]].failAt = 0)
                      => IsBlockOf(Dataset(invoked[i]), summary.content)

\* C5 witness: summary mode without overwrite; two units whose output file
\* names are the same name, which the output folder already holds, were both
\* processed and the datasets of both are in the summary file.
C5_Witness ==
    /\ SummaryMode
    /\ ~overwrite
    /\ phase = "Done"
    /\ Len(invoked) = 2
    /\ OutputNameOf(invoked[1]) = OutputNameOf(invoked[2])
    /\ outAtStart.exists
    /\ OutputNameOf(invoked[1]).name \in DOMAIN outAtStart.files
    /\ summary.content = HeaderLines \o Dataset(invoked[1]) \o Dataset(invoked[2])

\* C6: process_data is called in the sorted order of the file names: fileslist
\* is the input folder's entries in ascending order whatever order os.listdir
\* gave, objectlist is fileslist without the skipped files, and the calls made
\* so far are the first units of objectlist.
C6_SortedOrder ==
    /\ Sorted(fileslist)
    /\ phase = "Filtering" => Range(fileslist) = DOMAIN fs[infolder].files
    /\ Sorted(invoked)
    /\ FilteringOver =>
          objectlist = SelectSeq(fileslist, LAMBDA f : SkipCount(f) = 0)
    /\ Len(invoked) <= Len(objectlist)
    /\ invoked = SubSeq(objectlist, 1, Len(invoked))
    /\ phase = "Done" => invoked = objectlist

\* C6 witness: two units were processed, the smaller file name first.
C6_Witness ==
    /\ phase = "Done"
    /\ Len(invoked) = 2
    /\ LexLess(invoked[1], invoked[2])
    /\ Len(fileslist) = 2

\* C7 as stated: construction is only ever ended by an error of the header
\* write or of the listing of the input folder, that is before any unit is built.
C7_AbortOnlyBeforeUnits == phase = "Aborted" => constructed = <<>>

\* C8: with a summary file, once the header is written the file is the header
\* followed by exactly what the units processed so far in this run wrote, in
\* the order they ran; nothing is written before the header, whatever
\* overwrite is, and nothing of what the file held before is left.
C8_SummaryIsHeaderPlusRun ==
    (SummaryMode /\ phase # "Initialized" /\ ~(phase = "Aborted" /\ ~summary.dir)) =>
       /\ summary.exists
       /\ upc \in {"idle", "returned", "raised"} =>
             summary.content = HeaderLines \o WrittenBy(invoked)
       /\ upc \in {"calling_write", "writing"} =>
             summary.content = HeaderLines \o WrittenBy(SubSeq(invoked, 1, Len(invoked) - 1))
                                  \o SubSeq(Dataset(CurrentFile), 1, written)
       /\ phase \in {"Listing", "Filtering"} => summary.content = HeaderLines

\* C8 witness: the summary file held something before, overwrite is off, and at
\* Done it is the header and the datasets of the two units, in order.
C8_Witness ==
    /\ SummaryMode
    /\ ~overwrite
    /\ summaryAtStart.exists
    /\ summaryAtStart.content # <<>>
    /\ phase = "Done"
    /\ Len(invoked) = 2
    /\ summary.content = HeaderLines \o Dataset(invoked[1]) \o Dataset(invoked[2])

\* C9 as stated: whenever write_data_to_file has returned or raised, no file
\* handle it opened is still open.
C9_HandleClosedOnEveryExit == wstate \in {"returned", "raised"} => handles = 0

\* The output file name of file f, as generate_objects computed it.
OutName(f) == OutputNameOf(f).name

\* C10: once generate_objects is over, a file is left out of the run if and
\* only if there is no summary file, overwrite is off, the output folder could
\* be listed and the unit's output file name (not its input file name) is one
\* of the entries the folder held; and a notice is printed exactly for those.
C10_SkipIffOutputExists ==
    FilteringOver =>
       \A i \in DOMAIN fileslist :
          LET f == fileslist[i]
              excluded == \A j \in DOMAIN objectlist : objectlist[j] # f
          IN  /\ excluded <=> (/\ ~SummaryMode
                               /\ ~overwrite
                               /\ outAtStart.exists
                               /\ OutName(f) \in DOMAIN outAtStart.files)
              /\ excluded <=> SkipCount(f) = 1

\* C10 witness: the output folder holds a file with the input file's own name
\* but not the overridden output name, and the input file is processed, while
\* another input file whose output name the folder holds is left out.
C10_Witness ==
    /\ phase = "Done"
    /\ ~SummaryMode
    /\ ~overwrite
    /\ ProcessObject = "Override"
    /\ \E f \in Range(invoked) :
          /\ f \in DOMAIN outAtStart.files
          /\ OutName(f) \notin DOMAIN outAtStart.files
    /\ \E g \in Skipped :
          /\ g \notin DOMAIN outAtStart.files
          /\ OutName(g) \in DOMAIN outAtStart.files

\* The number of calls of process_data made for file f in this run.
Calls(f) == Cardinality({i \in DOMAIN invoked : invoked[i] = f})

\* C11 witness: the run is done; one file was left out and its process_data
\* was never called, and the unit that was kept had process_data called once,
\* although it raised.
C11_Witness ==
    /\ phase = "Done"
    /\ Skipped # {}
    /\ Len(objectlist) = 1
    /\ Len(raisedLog) = 1
    /\ Calls(objectlist[1]) = 1
    /\ \A f \in Skipped : Calls(f) = 0

\* C11: in one run process_data is called at most once for any file, also for
\* one whose call raised; when the run is done it was called exactly once for
\* every unit of objectlist; it is never called for a file generate_objects
\* left out; and from process_folder (Executing) the run only goes on to Done,
\* with fileslist, preservelist and objectlist left as they are.
C11_EachUnitOnceNoReturn ==
    /\ [](/\ \A f \in Range(fileslist) \cup Range(invoked) : Calls(f) <= 1
          /\ Range(invoked) \subseteq Range(objectlist)
          /\ FilteringOver => \A f \in Skipped : Calls(f) = 0
          /\ phase # "Executing" /\ phase # "Done" => invoked = <<>>
          /\ phase = "Executing" =>
                Len(invoked) = (IF upc = "idle" THEN idx - 1 ELSE idx)
          /\ phase = "Done" =>
                /\ Len(invoked) = Len(objectlist)
                /\ \A i \in DOMAIN objectlist : Calls(objectlist[i]) = 1)
    /\ [][phase = "Executing" =>
             /\ phase' \in {"Executing", "Done"}
             /\ <<fileslist, preservelist, objectlist>>' = <<fileslist, preservelist, objectlist>>]_vars

\* The notices of the files left out, in the order of fileslist.
SkipNotices ==
    LET left == SelectSeq(fileslist, LAMBDA f : f \in Skipped)
    IN  [i \in 1..Len(left) |-> SkipNotice(left[i])]

\* One 'Processing file ...' line for each unit process_folder is through with.
ProcessingLines ==
    [i \in 1..Len(comments) |-> ProcessingLine(comments[i].file, comments[i].comment)]

\* C12: what the driver has printed is, once generate_objects is over, the
\* notices of the files left out (whatever verbose is) followed, when verbose,
\* by one 'Processing file ...' line for each unit finished so far, in the
\* order process_data was called, and by one trailing line when the run is
\* done; when not verbose, by nothing.
C12_ConsoleOutput ==
    /\ \A i \in DOMAIN comments : comments[i].file = invoked[i]
    /\ phase = "Done" => Len(comments) = Len(invoked)
    /\ phase = "Filtering" => \A i \in DOMAIN console : console[i].kind = "skip"
    /\ OneNoticePerSkip
    /\ FilteringOver =>
          console = SkipNotices \o
                    (IF verbose
                        THEN ProcessingLines \o
                             (IF phase = "Done" THEN <<TrailingLine>> ELSE <<>>)
                        ELSE <<>>)

\* C12 witness: a verbose run is done that left one file out and processed
\* the other: a notice, one 'Processing file ...' line and the trailing line.
C12_Witness ==
    /\ verbose
    /\ phase = "Done"
    /\ Len(invoked) = 1
    /\ \E f \in Skipped :
          console = <<SkipNotice(f),
                      ProcessingLine(invoked[1], comments[1].comment),
                      TrailingLine>>

\* needle occurs in line: line is some characters, needle, and some characters.
IsSubstring(needle, line) ==
    \E a \in 0..Len(line) : \E b \in a..Len(line) : SubSeq(line, a + 1, b) = needle

\* C13: when grep_string has returned, with printdata = False its result is a
\* list whose first element is the unit's filename and whose other elements
\* are the indices counted from 0, in ascending order, of exactly the lines of
\* the dataset in which the string occurs (the filename alone when there is
\* none); with printdata = True the result is None.
C13_GrepResult ==
    grepcall.pc = "returned" =>
       IF grepcall.printdata THEN grepcall.result.none
       ELSE /\ ~grepcall.result.none
            /\ Len(grepcall.result.list) >= 1
            /\ Head(grepcall.result.list) = grepcall.filename
            /\ LET idxs == Tail(grepcall.result.list)
                    dataset == grepcall.dataset
               IN  /\ \A k \in DOMAIN idxs :
                         /\ idxs[k] \in 0..(Len(dataset) - 1)
                         /\ IsSubstring(grepcall.string, dataset[idxs[k] + 1])
                   /\ \A j \in 0..(Len(dataset) - 1) :
                         IsSubstring(grepcall.string, dataset[j + 1])
                            => \E k \in DOMAIN idxs : idxs[k] = j
                   /\ \A k1, k2 \in DOMAIN idxs : k1 < k2 => idxs[k1] < idxs[k2]
                   /\ (\A j \in DOMAIN dataset : ~IsSubstring(grepcall.string, dataset[j]))
                         => grepcall.result.list = <<grepcall.filename>>

\* C13 witness: '#2' searched with printdata = False in two lines of which
\* only the second holds it: the result is the filename and the index 1.
C13_Witness ==
    /\ grepcall.pc = "returned"
    /\ ~grepcall.printdata
    /\ grepcall.string = <<35, 50>>
    /\ grepcall.dataset = <<<<50, Newline>>, <<35, 50, Newline>>>>
    /\ Len(grepcall.result.list) = 2
    /\ grepcall.result.list[1] = grepcall.filename
    /\ grepcall.result.list[2] = 1

\* The i-th call of process_data of this run raised.
RaisedAt(i) == \E k \in DOMAIN raisedLog : raisedLog[k].pos = i

\* C14: the comment recorded for the i-th unit processed is the FAILED comment
\* when its process_data raised, whether or not the unit had set statusverbose
\* before; otherwise the statusverbose the unit set, when it set one; otherwise
\* the OK marker.
C14_CommentOfUnit ==
    \A i \in DOMAIN comments :
       LET f == comments[i].file
           c == comments[i].comment
       IN  /\ f = invoked[i]
           /\ RaisedAt(i) => c.tag = "FAILED"
           /\ (~RaisedAt(i) /\ behav[f].status # "") => c = StatusComment(behav[f].status)
           /\ (~RaisedAt(i) /\ behav[f].status = "") => c = OKComment

\* C14 witness: the run is done; the first unit set statusverbose and then
\* raised, and has the FAILED comment; the second set it and returned, and
\* has its status as comment.
C14_Witness ==
    /\ phase = "Done"
    /\ Len(comments) = 2
    /\ RaisedAt(1)
    /\ behav[comments[1].file].status # ""
    /\ comments[1].comment.tag = "FAILED"
    /\ ~RaisedAt(2)
    /\ comments[2].comment = StatusComment("custom status")

\* The header write, if any, is over and went well.
HeaderDone == phase # "Initialized" /\ (SummaryMode => summary.dir)

\* C15: when the input folder cannot be listed the construction never gets to
\* generate_objects or process_folder: once the header write is over it ends
\* with the error of os.listdir, no unit was built, no process_data was
\* called, nothing was written through write_data_to_file and the output
\* folder is as it was.
C15_ListingFailureIsFatal ==
    ~fs[infolder].exists =>
       /\ phase \in {"Initialized", "Listing", "Aborted"}
       /\ constructed = <<>>
       /\ invoked = <<>>
       /\ wrote = <<>>
       /\ fs[outfolder] = outAtStart
       /\ (HeaderDone /\ phase # "Listing") =>
             /\ phase = "Aborted"
             /\ abortErr = OpenError

\* C15 witness: there is no input folder; the output folder holds files; the
\* construction ended with the error of the listing.
C15_Witness ==
    /\ ~fs[infolder].exists
    /\ ~SummaryMode
    /\ phase = "Aborted"
    /\ abortErr = OpenError
    /\ fs[outfolder].exists
    /\ DOMAIN fs[outfolder].files # {}
    /\ constructed = <<>>

\* The entries of fileslist whose output file name is n.
UnitsFor(n) == {f \in Range(fileslist) : OutName(f) = n}

\* The output file names that two or more entries share and that the output
\* folder did not hold when the run started.
SharedNewNames ==
    {n \in {OutName(f) : f \in Range(fileslist)} :
        /\ Cardinality(UnitsFor(n)) >= 2
        /\ n \notin DOMAIN outAtStart.files}

\* The last of a set of file names in sorted order.
LastOf(S) == CHOOSE h \in S : \A k \in S \ {h} : LexLess(k, h)

\* The unit of file f opened its output file in write_data_to_file.
OpenedOutput(f) ==
    /\ f \in DOMAIN behav
    /\ behav[f].kind = "write"
    /\ fs[outfolder].exists

\* C16 as stated: without summary file, when the run is done every unit whose
\* output file name is shared and new was processed, and the output file of
\* that name holds only what the last of these units in sorted order wrote.
C16_Original ==
    (phase = "Done" /\ ~SummaryMode) =>
       \A n \in SharedNewNames :
          /\ UnitsFor(n) \subseteq Range(invoked)
          /\ n \in DOMAIN fs[outfolder].files =>
                fs[outfolder].files[n] = WrittenPart(LastOf(UnitsFor(n)))

\* C16 amended: the preserve list is the output folder as it was when the run
\* started; without summary file, when the run is done every unit whose
\* output file name is shared and new was processed, and the output file of
\* that name holds only what the last of the units that opened it wrote: the
\* last in sorted order if that unit got to open it, an earlier one if the
\* later ones raised before or wrote nothing; it does not exist if none did.
C16_SnapshotLastWriterWins ==
    /\ (phase = "Filtering" /\ genIdx >= 1) \/ FilteringOver =>
          preservelist = PreserveList(overwrite, SummaryMode, outAtStart)
    /\ (phase = "Done" /\ ~SummaryMode) =>
          \A n \in SharedNewNames :
             LET writers == {f \in UnitsFor(n) : OpenedOutput(f)}
             IN  /\ UnitsFor(n) \subseteq Range(invoked)
                 /\ IF writers = {} THEN n \notin DOMAIN fs[outfolder].files
                    ELSE /\ n \in DOMAIN fs[outfolder].files
                         /\ fs[outfolder].files[n] = WrittenPart(LastOf(writers))

\* C16 witness: two input files have the same output file name, which the
\* output folder did not hold; both units wrote their dataset, and the file
\* holds the dataset of the second one only.
C16_Witness ==
    /\ phase = "Done"
    /\ ~SummaryMode
    /\ Len(invoked) = 2
    /\ OutName(invoked[1]) = OutName(invoked[2])
    /\ OutName(invoked[1]) \in SharedNewNames
    /\ \A i \in 1..2 : behav[invoked[i]].kind = "write" /\ behav[invoked[i]].failAt = 0
    /\ fs[outfolder].exists
    /\ fs[outfolder].files[OutName(invoked[1])] = Dataset(invoked[2])

\* C17: with an outfile, when the construction was ended by the error of the
\* listing of the input folder (the header write before it went well), the
\* outfile exists and holds the header and nothing else, whatever it held
\* before, and no unit was built or processed.
C17_HeaderWrittenBeforeListingFails ==
    (SummaryMode /\ summary.dir /\ ~fs[infolder].exists /\ phase = "Aborted") =>
       /\ abortErr = OpenError
       /\ summary.exists
       /\ summary.content = HeaderLines
       /\ constructed = <<>>
       /\ invoked = <<>>
       /\ wrote = <<>>

\* C17 witness: the outfile held lines before the run, there is no input
\* folder, and after the failed construction the outfile is the header alone.
C17_Witness ==
    /\ SummaryMode
    /\ ~fs[infolder].exists
    /\ phase = "Aborted"
    /\ summaryAtStart.exists
    /\ summaryAtStart.content = OldContent(<<>>)
    /\ summary.content = HeaderLines
    /\ summary.content # summaryAtStart.content
    /\ invoked = <<>>

====
